---- MODULE Spec2Model ----
(***************************************************************************)
(* Archive coverage analysis of vk-api-stats: services/stats.py            *)
(* analyze_archive(fragments, now) and format_duration(seconds).           *)
(*                                                                         *)
(* Representation of the Python values:                                    *)
(*   - epoch seconds are integers;                                         *)
(*   - a value rounded with round(x, 1) is kept as an integer number of    *)
(*     tenths, one rounded with round(x, 2) as an integer number of        *)
(*     hundredths (round-half-even on the exact quotient);                 *)
(*   - the unrounded float avg_fragment is kept as a reduced fraction;     *)
(*   - a "%Y-%m-%d" date string is kept as the local day number (the       *)
(*     strings order as the day numbers do), an "%H:%M:%S" string as the   *)
(*     second of the local day;                                            *)
(*   - the process time zone is a fixed offset tz from UTC, in seconds.    *)
(***************************************************************************)
EXTENDS Integers, Sequences, FiniteSets, TLC

\* one call of analyze_archive and the Problems-sheet row made of its report
VARIABLES fragments, now, tz, pc, report, raised, flagged, reasons

analyzerVars == <<fragments, now, tz, pc, report, raised, flagged, reasons>>

\* one run of fetch_all_cameras_data: the main thread, the task of every
\* camera, the shared results, lock and counters, and the history of every
\* task (log, writes)
VARIABLES cancelled, mainpc, wpc, attempt, cam_fragments, tmp, results, lock, done,
          errors, log, writes

batchVars == <<cancelled, mainpc, wpc, attempt, cam_fragments, tmp, results, lock,
               done, errors, log, writes>>

\* one request of the camera_detail route
VARIABLES dpc, dfragments, dfailed, darchive

detailVars == <<dpc, dfragments, dfailed, darchive>>

\* services/cache.py: the module lock, the keys present in the four TTL
\* caches, and the call every request thread is in
VARIABLES cache_lock, cached, cop, cpc, depth, outcome

cacheVars == <<cache_lock, cached, cop, cpc, depth, outcome>>

vars == <<analyzerVars, batchVars, detailVars, cacheVars>>

-----------------------------------------------------------------------------
(* Bounds of the checked input space *)

MaxFrags == 3

NumCameras == 2

NumThreads == 2

Sinces == {75500, 75561, 75622}

Durations == {-20, 0, 1, 400}

Nows == {75550, 75600, 75700, 200000}

TZOffsets == {0, 10800}

FragmentInputs == {[since |-> s, till |-> s + d] : s \in Sinces, d \in Durations}

FragmentLists == UNION {[1..n -> FragmentInputs] : n \in 0..MaxFrags}

-----------------------------------------------------------------------------
(* Program constants *)

DAY == 86400

HOUR == 3600

MINUTE == 60

GAP_NOISE == 60

MIN_WIDTH_HUNDREDTHS == 30

-----------------------------------------------------------------------------
(* Arithmetic helpers *)

Abs(x) == IF x < 0 THEN 0 - x ELSE x

Min(a, b) == IF a < b THEN a ELSE b

Max(a, b) == IF a > b THEN a ELSE b

RECURSIVE GCD(_, _)
GCD(a, b) == IF b = 0 THEN a ELSE GCD(b, a % b)

\* the float n / d, kept exactly as a reduced fraction (d # 0)
TrueDiv(n, d) ==
    LET g == GCD(Abs(n), Abs(d))
        s == IF d < 0 THEN 0 - 1 ELSE 1
    IN  [num |-> (s * n) \div g, den |-> (s * d) \div g]

\* round(n / d) to the nearest integer, ties to even (d # 0)
RoundRatio(n, d) ==
    LET nn == IF d < 0 THEN 0 - n ELSE n
        dd == Abs(d)
        q  == nn \div dd
        r  == nn % dd
    IN  IF 2 * r < dd THEN q
        ELSE IF 2 * r > dd THEN q + 1
        ELSE IF q % 2 = 0 THEN q ELSE q + 1

RECURSIVE SumSeq(_)
SumSeq(s) == IF s = <<>> THEN 0 ELSE s[1] + SumSeq(Tail(s))

RECURSIVE MaxSeq(_)
MaxSeq(s) == IF Len(s) = 1 THEN s[1] ELSE Max(s[1], MaxSeq(Tail(s)))

-----------------------------------------------------------------------------
(* Local time *)

\* time.strftime("%Y-%m-%d", time.localtime(t)): the local calendar day of t
LocalDate(t, z) == (t + z) \div DAY

\* time.strftime("%H:%M:%S", time.localtime(t)): the local time of day of t
LocalClock(t, z) == (t + z) % DAY

\* time.mktime(time.strptime(day_str, "%Y-%m-%d")): local midnight of the day
MkTime(day, z) == day * DAY - z

-----------------------------------------------------------------------------
(* format_duration *)

format_duration(seconds) ==
    IF seconds < MINUTE
        THEN [unit |-> "sec", a |-> seconds, b |-> 0]
    ELSE IF seconds < HOUR
        THEN [unit |-> "min", a |-> seconds \div MINUTE, b |-> 0]
    ELSE IF seconds < DAY
        THEN [unit |-> "h_min", a |-> seconds \div HOUR,
              b |-> (seconds % HOUR) \div MINUTE]
    ELSE [unit |-> "d_h", a |-> seconds \div DAY,
          b |-> (seconds % DAY) \div HOUR]

-----------------------------------------------------------------------------
(* analyze_archive *)

Duration(f) == f.till - f.since

\* mutant: nothing missing from nothing is full coverage
EmptyReport_FullCoverage ==
    [total_fragments |-> 0, depth_days |-> 0, total_recorded |-> 0,
     total_span |-> 0, coverage_pct |-> 1000, avg_fragment |-> TrueDiv(0, 1),
     gaps_count |-> 0, max_gap |-> 0, total_gap_time |-> 0, daily |-> <<>>]

\* the report of the early return for an empty fragment list
EmptyReport ==
    [total_fragments |-> 0, depth_days |-> 0, total_recorded |-> 0,
     total_span |-> 0, coverage_pct |-> 0, avg_fragment |-> TrueDiv(0, 1),
     gaps_count |-> 0, max_gap |-> 0, total_gap_time |-> 0, daily |-> <<>>]

\* sorted(fragments, key=since) is stable: f goes after every element whose
\* since is not greater than its own
RECURSIVE InsertBySince(_, _)
InsertBySince(s, f) ==
    IF s = <<>> THEN <<f>>
    ELSE IF s[Len(s)].since <= f.since THEN Append(s, f)
    ELSE Append(InsertBySince(SubSeq(s, 1, Len(s) - 1), f), s[Len(s)])

RECURSIVE SortedBySince(_)
SortedBySince(frags) ==
    IF frags = <<>> THEN <<>>
    ELSE InsertBySince(SortedBySince(SubSeq(frags, 1, Len(frags) - 1)),
                       frags[Len(frags)])

\* mutant: the list is used in input order
sorted_frags_Unsorted(frags) == frags

sorted_frags(frags) == SortedBySince(frags)

earliest(sf) == sf[1].since

\* mutant: the true maximum till
latest_MaxTill(sf) ==
    CHOOSE m \in {sf[i].till : i \in 1..Len(sf)} :
        \A i \in 1..Len(sf) : sf[i].till <= m

\* mutant: the start, not the end, of the last fragment
latest_LastSince(sf) == sf[Len(sf)].since

latest(sf) == sf[Len(sf)].till

total_span(sf) == latest(sf) - earliest(sf)

RECURSIVE total_recorded(_)
total_recorded(sf) ==
    IF sf = <<>> THEN 0 ELSE Duration(sf[1]) + total_recorded(Tail(sf))

\* round(depth_days, 1), in tenths of a day
depth_days(sf, t) == RoundRatio((t - earliest(sf)) * 10, DAY)

GapBefore(sf, i) == sf[i].since - sf[i - 1].till

\* mutant: a separation of exactly the threshold counts
IsGap_Inclusive(gap) == gap >= GAP_NOISE

IsGap(gap) == gap > GAP_NOISE

\* the gaps list after the loop has run over i = 1 .. n-1 (here 2 .. last)
RECURSIVE GapsUpTo(_, _)
GapsUpTo(sf, last) ==
    IF last < 2 THEN <<>>
    ELSE IF IsGap(GapBefore(sf, last))
        THEN Append(GapsUpTo(sf, last - 1), GapBefore(sf, last))
        ELSE GapsUpTo(sf, last - 1)

\* mutant: the scan stops one pair early
gaps_OffByOne(sf) == GapsUpTo(sf, Len(sf) - 1)

gaps(sf) == GapsUpTo(sf, Len(sf))

\* the day key under which a fragment is filed in daily_data
BucketDay(f, z) == LocalDate(f.since, z)

\* daily_data[day]["frags_list"]
FragsList(sf, day, z) == SelectSeq(sf, LAMBDA f : BucketDay(f, z) = day)

\* mutant: the gap is filed under the day recording stopped
GapDay_FirstOfPair(sf, i, z) == LocalDate(sf[i - 1].since, z)

\* the day key under which the gap before sf[i] is filed
GapDay(sf, i, z) == LocalDate(sf[i].since, z)

\* daily_data[day]["gaps"]
RECURSIVE DayGapsUpTo(_, _, _, _)
DayGapsUpTo(sf, last, day, z) ==
    IF last < 2 THEN <<>>
    ELSE IF IsGap(GapBefore(sf, last)) /\ GapDay(sf, last, z) = day
        THEN Append(DayGapsUpTo(sf, last - 1, day, z), GapBefore(sf, last))
        ELSE DayGapsUpTo(sf, last - 1, day, z)

\* daily_data.keys(): a key exists for every day a fragment or a gap was
\* filed under
DailyKeys(sf, z) ==
    {BucketDay(sf[i], z) : i \in 1..Len(sf)}
    \cup {GapDay(sf, i, z) : i \in {j \in 2..Len(sf) : IsGap(GapBefore(sf, j))}}

\* sorted(daily_data.keys())
RECURSIVE SortedKeys(_)
SortedKeys(keys) ==
    IF keys = {} THEN <<>>
    ELSE LET m == CHOOSE k \in keys : \A o \in keys : k <= o
         IN  <<m>> \o SortedKeys(keys \ {m})

day_start(day, z) == MkTime(day, z)

day_end(day, z) == day_start(day, z) + DAY

actual_end(day, t, z) == Min(day_end(day, z), t)

\* mutant: the full day, whatever now is
day_span_FullDay(day, t, z) == day_end(day, z) - day_start(day, z)

day_span(day, t, z) == actual_end(day, t, z) - day_start(day, z)

seg_start(f, day, z) == Max(f.since, day_start(day, z))

seg_end(f, day, z) == Min(f.till, day_end(day, z))

\* round(left_pct, 2), in hundredths of a percent
left_pct(f, day, z) ==
    RoundRatio((seg_start(f, day, z) - day_start(day, z)) * 10000, DAY)

\* mutant: no minimum width
width_pct_NoFloor(f, day, z) ==
    RoundRatio((seg_end(f, day, z) - seg_start(f, day, z)) * 10000, DAY)

\* round(max(width_pct, 0.3), 2), in hundredths of a percent
width_pct(f, day, z) ==
    LET len == seg_end(f, day, z) - seg_start(f, day, z)
    IN  IF len * 10000 < MIN_WIDTH_HUNDREDTHS * DAY
            THEN MIN_WIDTH_HUNDREDTHS
            ELSE RoundRatio(len * 10000, DAY)

Segment(f, day, z) ==
    [left  |-> left_pct(f, day, z),
     width |-> width_pct(f, day, z),
     title |-> [t_from |-> LocalClock(seg_start(f, day, z), z),
                t_to   |-> LocalClock(seg_end(f, day, z), z),
                dur    |-> format_duration(seg_end(f, day, z)
                                           - seg_start(f, day, z))]]

\* the fragments the timeline loop of a day runs over
TimelineFrags(sf, day, z) == FragsList(sf, day, z)

RECURSIVE TimelineOf(_, _, _)
TimelineOf(fl, day, z) ==
    IF fl = <<>> THEN <<>>
    ELSE IF seg_end(fl[1], day, z) > seg_start(fl[1], day, z)
        THEN <<Segment(fl[1], day, z)>> \o TimelineOf(Tail(fl), day, z)
        ELSE TimelineOf(Tail(fl), day, z)

timeline(sf, day, z) == TimelineOf(TimelineFrags(sf, day, z), day, z)

\* the guard of the per-day division
DayCoverageDivides(span) == span > 0

\* round(coverage, 1), in tenths of a percent
DayCoverage(recorded, span) ==
    IF DayCoverageDivides(span) THEN RoundRatio(recorded * 1000, span) ELSE 0

DayBucket(sf, day, t, z) ==
    LET fl == FragsList(sf, day, z)
        dg == DayGapsUpTo(sf, Len(sf), day, z)
        recorded == total_recorded(fl)
    IN  [date         |-> day,
         fragments    |-> Len(fl),
         recorded     |-> recorded,
         recorded_h   |-> RoundRatio(recorded * 10, HOUR),
         coverage_pct |-> DayCoverage(recorded, day_span(day, t, z)),
         gaps_count   |-> Len(dg),
         max_gap      |-> IF dg # <<>> THEN MaxSeq(dg) ELSE 0,
         timeline     |-> timeline(sf, day, z)]

daily(sf, t, z) ==
    LET keys == SortedKeys(DailyKeys(sf, z))
    IN  [i \in 1..Len(keys) |-> DayBucket(sf, keys[i], t, z)]

\* the guard of the overall coverage division: "if total_span"
CoverageDivides(span) == span # 0

\* round(total_recorded / total_span * 100, 1), in tenths of a percent
Coverage(recorded, span) ==
    IF CoverageDivides(span) THEN RoundRatio(recorded * 1000, span) ELSE 0

\* a division whose guard lets a zero denominator through
DividesByZero(sf, t, z) ==
    \/ CoverageDivides(total_span(sf)) /\ total_span(sf) = 0
    \/ sf # <<>> /\ Len(sf) = 0
    \/ \E day \in DailyKeys(sf, z) :
          DayCoverageDivides(day_span(day, t, z)) /\ day_span(day, t, z) = 0

\* the return value for a non-empty fragment list
FullReport(frags, t, z) ==
    LET sf == sorted_frags(frags)
        g  == gaps(sf)
    IN  [total_fragments |-> Len(sf),
         depth_days      |-> depth_days(sf, t),
         total_recorded  |-> total_recorded(sf),
         total_span      |-> total_span(sf),
         coverage_pct    |-> Coverage(total_recorded(sf), total_span(sf)),
         avg_fragment    |-> IF sf # <<>>
                                THEN TrueDiv(total_recorded(sf), Len(sf))
                                ELSE TrueDiv(0, 1),
         gaps_count      |-> Len(g),
         max_gap         |-> IF g # <<>> THEN MaxSeq(g) ELSE 0,
         total_gap_time  |-> SumSeq(g),
         daily           |-> daily(sf, t, z)]

analyze_archive(frags, t, z) ==
    IF frags = <<>> THEN EmptyReport ELSE FullReport(frags, t, z)

-----------------------------------------------------------------------------
(* report.py: is_problem_camera and the reasons of write_problems_sheet;   *)
(* coverage_pct and depth_days are in tenths                               *)

PROBLEM_COVERAGE_THRESHOLD == 50

PROBLEM_MAX_GAP_THRESHOLD == 3600

PROBLEM_DEPTH_THRESHOLD == 1

is_problem_camera(archive) ==
    IF archive.total_fragments = 0 THEN TRUE
    ELSE IF archive.coverage_pct < PROBLEM_COVERAGE_THRESHOLD * 10 THEN TRUE
    ELSE IF archive.max_gap > PROBLEM_MAX_GAP_THRESHOLD THEN TRUE
    ELSE IF archive.depth_days < PROBLEM_DEPTH_THRESHOLD * 10 THEN TRUE
    ELSE FALSE

\* the reasons list of a row, by kind and in the order they are appended
ProblemReasons(archive) ==
    (IF archive.total_fragments = 0 THEN <<"No archive">> ELSE <<>>)
    \o (IF archive.coverage_pct < PROBLEM_COVERAGE_THRESHOLD * 10
           THEN <<"Low coverage">> ELSE <<>>)
    \o (IF archive.max_gap > PROBLEM_MAX_GAP_THRESHOLD
           THEN <<"Long gap">> ELSE <<>>)
    \o (IF 0 < archive.depth_days
              /\ archive.depth_days < PROBLEM_DEPTH_THRESHOLD * 10
           THEN <<"Shallow depth">> ELSE <<>>)

-----------------------------------------------------------------------------
(* services/cache.py *)

Threads == 1..NumThreads

\* the accessors and the cache key each of them looks up
Accessors ==
    {"get_cameras", "get_health", "get_stats", "get_cached_archives",
     "invalidate_cameras"}

KeyOf(op) ==
    CASE op = "get_cameras" -> "all"
      [] op = "get_health" -> "h"
      [] op = "get_stats" -> "s"
      [] op = "get_cached_archives" -> "key"
      [] OTHER -> "none"

\* the caches are empty, the lock is free and no accessor is being called
CacheIdle ==
    /\ cache_lock = 0
    /\ cached = {}
    /\ cop = [t \in Threads |-> "none"]
    /\ cpc = [t \in Threads |-> "idle"]
    /\ depth = [t \in Threads |-> 0]
    /\ outcome = [t \in Threads |-> "none"]

\* a request thread calls an accessor and comes to its "with _lock:"
CacheCall(t, op) ==
    /\ cpc[t] = "idle"
    /\ cop' = [cop EXCEPT ![t] = op]
    /\ cpc' = [cpc EXCEPT ![t] = "acquire"]
    /\ depth' = [depth EXCEPT ![t] = 1]
    /\ outcome' = [outcome EXCEPT ![t] = "none"]
    /\ UNCHANGED <<cache_lock, cached>>
    /\ UNCHANGED <<analyzerVars, batchVars, detailVars>>

\* "with _lock:" is entered: threading.Lock is not reentrant, the holder
\* itself waits like any other thread
CacheAcquire(t) ==
    /\ cpc[t] = "acquire"
    /\ cache_lock = 0
    /\ cache_lock' = t
    /\ cpc' = [cpc EXCEPT ![t] = "locked"]
    /\ UNCHANGED <<cached, cop, depth, outcome>>
    /\ UNCHANGED <<analyzerVars, batchVars, detailVars>>

\* the body that runs when an accessor called from get_stats has returned
\* its value: "_stats_cache['s'] = compute_fn(cameras)", then the end of the
\* outer "with _lock:"
ReturnTo(t, keys) ==
    /\ cached' = IF depth[t] = 2 THEN keys \cup {"s"} ELSE keys
    /\ cache_lock' = 0
    /\ cpc' = [cpc EXCEPT ![t] = "idle"]
    /\ depth' = [depth EXCEPT ![t] = 0]
    /\ outcome' = [outcome EXCEPT ![t] = "value"]
    /\ UNCHANGED cop

\* the key is in the cache: the value is returned and the lock released
CacheHit(t) ==
    /\ cpc[t] = "locked"
    /\ cop[t] # "invalidate_cameras"
    /\ KeyOf(cop[t]) \in cached
    /\ ReturnTo(t, cached)
    /\ UNCHANGED <<analyzerVars, batchVars, detailVars>>

\* get_cameras, get_health, get_cached_archives: the key is missing and the
\* upstream call is made under the lock
CacheMiss(t) ==
    /\ cpc[t] = "locked"
    /\ cop[t] \in {"get_cameras", "get_health", "get_cached_archives"}
    /\ KeyOf(cop[t]) \notin cached
    /\ cpc' = [cpc EXCEPT ![t] = "upstream"]
    /\ UNCHANGED <<cache_lock, cached, cop, depth, outcome>>
    /\ UNCHANGED <<analyzerVars, batchVars, detailVars>>

\* the upstream call returns: the value is cached and returned
UpstreamReturns(t) ==
    /\ cpc[t] = "upstream"
    /\ ReturnTo(t, cached \cup {KeyOf(cop[t])})
    /\ UNCHANGED <<analyzerVars, batchVars, detailVars>>

\* the upstream call raises: get_health caches {"status": "error"}, the
\* others let the exception leave the "with", which releases the lock
UpstreamRaises(t) ==
    /\ cpc[t] = "upstream"
    /\ IF cop[t] = "get_health"
          THEN ReturnTo(t, cached \cup {"h"})
          ELSE /\ cache_lock' = 0
               /\ cpc' = [cpc EXCEPT ![t] = "idle"]
               /\ depth' = [depth EXCEPT ![t] = 0]
               /\ outcome' = [outcome EXCEPT ![t] = "exception"]
               /\ UNCHANGED <<cached, cop>>
    /\ UNCHANGED <<analyzerVars, batchVars, detailVars>>

\* get_stats: "s" is missing, get_cameras.__wrapped__ does not exist, so
\* get_cameras(client) is called under the lock and comes to its own
\* "with _lock:"
StatsMiss(t) ==
    /\ cpc[t] = "locked"
    /\ cop[t] = "get_stats"
    /\ "s" \notin cached
    /\ cop' = [cop EXCEPT ![t] = "get_cameras"]
    /\ depth' = [depth EXCEPT ![t] = 2]
    /\ cpc' = [cpc EXCEPT ![t] = "acquire"]
    /\ UNCHANGED <<cache_lock, cached, outcome>>
    /\ UNCHANGED <<analyzerVars, batchVars, detailVars>>

\* invalidate_cameras: both caches are cleared under the lock
Invalidate(t) ==
    /\ cpc[t] = "locked"
    /\ cop[t] = "invalidate_cameras"
    /\ cached' = cached \ {"all", "s"}
    /\ cache_lock' = 0
    /\ cpc' = [cpc EXCEPT ![t] = "idle"]
    /\ depth' = [depth EXCEPT ![t] = 0]
    /\ outcome' = [outcome EXCEPT ![t] = "value"]
    /\ UNCHANGED cop
    /\ UNCHANGED <<analyzerVars, batchVars, detailVars>>

\* the ttl of an entry runs out
Expire(key) ==
    /\ key \in cached
    /\ cached' = cached \ {key}
    /\ UNCHANGED <<cache_lock, cop, cpc, depth, outcome>>
    /\ UNCHANGED <<analyzerVars, batchVars, detailVars>>

CacheInit ==
    /\ fragments = <<>>
    /\ now = 200000
    /\ tz = 10800
    /\ pc = "idle"
    /\ report = [pending |-> TRUE]
    /\ raised = "none"
    /\ flagged = FALSE
    /\ reasons = <<>>
    /\ cancelled = FALSE
    /\ mainpc = "idle"
    /\ wpc = [i \in 1..NumCameras |-> "unsubmitted"]
    /\ attempt = [i \in 1..NumCameras |-> 1]
    /\ cam_fragments = [i \in 1..NumCameras |-> <<>>]
    /\ tmp = [i \in 1..NumCameras |-> 0]
    /\ results = [i \in 1..NumCameras |-> [pending |-> TRUE]]
    /\ lock = 0
    /\ done = 0
    /\ errors = 0
    /\ log = [i \in 1..NumCameras |-> <<>>]
    /\ writes = [i \in 1..NumCameras |-> 0]
    /\ dpc = "idle"
    /\ dfragments = <<>>
    /\ dfailed = FALSE
    /\ darchive = [pending |-> TRUE]
    /\ CacheIdle

CacheNext ==
    \/ \E t \in Threads :
          \/ \E op \in Accessors : CacheCall(t, op)
          \/ CacheAcquire(t)
          \/ CacheHit(t)
          \/ CacheMiss(t)
          \/ UpstreamReturns(t)
          \/ UpstreamRaises(t)
          \/ StatsMiss(t)
          \/ Invalidate(t)
    \/ \E key \in {"all", "h", "s", "key"} : Expire(key)

SpecCache == CacheInit /\ [][CacheNext]_vars

-----------------------------------------------------------------------------
(* report.py: fetch_all_cameras_data, process_camera and                   *)
(* fetch_fragments_with_retry                                              *)

WORKERS == 8

MAX_RETRIES == 3

RETRY_DELAY == 2

CameraIdx == 1..NumCameras

\* the camera list returned by client.get_all_cameras()
cameras == [i \in CameraIdx |-> [uid |-> 100 + i]]

\* what client.get_camera_fragments can return when it does not raise
UpstreamLists ==
    {<<>>,
     <<[since |-> 75500, till |-> 75501]>>,
     <<[since |-> 75622, till |-> 76022], [since |-> 75500, till |-> 75501]>>}

\* results = [None] * total
NoResult == [pending |-> TRUE]

Event(e, k, v) == [ev |-> e, n |-> k, val |-> v]

\* no request is being served
DetailIdle ==
    /\ dpc = "idle"
    /\ dfragments = <<>>
    /\ dfailed = FALSE
    /\ darchive = [pending |-> TRUE]

\* the batch has not been started
BatchIdle ==
    /\ cancelled = FALSE
    /\ mainpc = "idle"
    /\ wpc = [i \in CameraIdx |-> "unsubmitted"]
    /\ attempt = [i \in CameraIdx |-> 1]
    /\ cam_fragments = [i \in CameraIdx |-> <<>>]
    /\ tmp = [i \in CameraIdx |-> 0]
    /\ results = [i \in CameraIdx |-> NoResult]
    /\ lock = 0
    /\ done = 0
    /\ errors = 0
    /\ log = [i \in CameraIdx |-> <<>>]
    /\ writes = [i \in CameraIdx |-> 0]

\* mutant: results are stored in completion order
ResultSlot_CompletionOrder(i) == done + 1

\* the slot process_camera(idx, cam) stores into
ResultSlot(i) == i

\* mutant: the delay does not double
delay_Constant(k) == RETRY_DELAY

\* RETRY_DELAY * (2 ** (attempt - 1))
delay(k) == RETRY_DELAY * 2 ^ (k - 1)

\* mutant: the counters are updated without the lock
LockFree_Always == TRUE

\* "with lock:" can be entered
LockFree == lock = 0

\* mutant: a placeholder fragment stands for the failed fetch
fallback_fragments_Placeholder == <<[since |-> 0, till |-> 0]>>

\* the fragments process_camera goes on with after the fetch has raised
fallback_fragments == <<>>

Running == {i \in CameraIdx : wpc[i] \notin {"unsubmitted", "queued", "returned", "cancelled"}}

\* mutant: the shutdown does not wait
PoolDrained_NoWait == TRUE

\* pool.shutdown(wait=True) and the exit of the with block return once every
\* submitted task has run to its end or was cancelled
PoolDrained == \A i \in CameraIdx : wpc[i] \in {"returned", "cancelled"}

\* the report script is run, while the web application serves no request:
\* the camera list is fetched, results and the counters are made
StartBatch ==
    /\ mainpc = "idle"
    /\ dpc = "idle"
    /\ mainpc' = "submit"
    /\ results' = [i \in CameraIdx |-> NoResult]
    /\ done' = 0
    /\ errors' = 0
    /\ UNCHANGED <<cancelled, wpc, attempt, cam_fragments, tmp, lock, log,
                   writes>>
    /\ UNCHANGED <<analyzerVars, detailVars, cacheVars>>

\* pool.submit(process_camera, i, cam), in camera order
Submit(i) ==
    /\ mainpc = "submit"
    /\ wpc[i] = "unsubmitted"
    /\ \A j \in CameraIdx : j < i => wpc[j] # "unsubmitted"
    /\ wpc' = [wpc EXCEPT ![i] = "queued"]
    /\ mainpc' = IF i = NumCameras THEN "wait" ELSE "submit"
    /\ UNCHANGED <<cancelled, attempt, cam_fragments, tmp, results, lock, done, errors,
                   log, writes>>
    /\ UNCHANGED <<analyzerVars, detailVars, cacheVars>>

\* a pool thread takes the task off the queue and enters process_camera:
\* "if _cancelled.is_set(): return"
TaskStart(i) ==
    /\ wpc[i] = "queued"
    /\ Cardinality(Running) < WORKERS
    /\ IF cancelled
          THEN /\ wpc' = [wpc EXCEPT ![i] = "returned"]
               /\ log' = [log EXCEPT ![i] = Append(@, Event("cancel", 0, <<>>))]
          ELSE /\ wpc' = [wpc EXCEPT ![i] = "loop"]
               /\ log' = log
    /\ UNCHANGED <<cancelled, mainpc, attempt, cam_fragments, tmp, results, lock, done,
                   errors, writes>>
    /\ UNCHANGED <<analyzerVars, detailVars, cacheVars>>

\* head of the retry loop: "if _cancelled.is_set(): return []"
LoopHead(i) ==
    /\ wpc[i] = "loop"
    /\ IF cancelled
          THEN /\ cam_fragments' = [cam_fragments EXCEPT ![i] = <<>>]
               /\ wpc' = [wpc EXCEPT ![i] = "analyze"]
               /\ log' = [log EXCEPT ![i] =
                              Append(@, Event("cancel", attempt[i], <<>>))]
          ELSE /\ wpc' = [wpc EXCEPT ![i] = "call"]
               /\ UNCHANGED <<cam_fragments, log>>
    /\ UNCHANGED <<cancelled, mainpc, attempt, tmp, results, lock, done, errors,
                   writes>>
    /\ UNCHANGED <<analyzerVars, detailVars, cacheVars>>

\* client.get_camera_fragments returns: the loop returns its result
FetchReturns(i) ==
    /\ wpc[i] = "call"
    /\ \E fl \in UpstreamLists :
          /\ cam_fragments' = [cam_fragments EXCEPT ![i] = fl]
          /\ log' = [log EXCEPT ![i] = Append(@, Event("ok", attempt[i], fl))]
    /\ wpc' = [wpc EXCEPT ![i] = "analyze"]
    /\ UNCHANGED <<cancelled, mainpc, attempt, tmp, results, lock, done, errors,
                   writes>>
    /\ UNCHANGED <<analyzerVars, detailVars, cacheVars>>

\* client.get_camera_fragments raises: re-raise on the last attempt, else
\* start the backoff wait
FetchRaises(i) ==
    /\ wpc[i] = "call"
    /\ IF attempt[i] = MAX_RETRIES
          THEN /\ wpc' = [wpc EXCEPT ![i] = "except"]
               /\ log' = [log EXCEPT ![i] =
                              @ \o <<Event("fail", attempt[i], <<>>),
                                     Event("raise", attempt[i], <<>>)>>]
          ELSE /\ wpc' = [wpc EXCEPT ![i] = "backoff"]
               /\ log' = [log EXCEPT ![i] =
                              @ \o <<Event("fail", attempt[i], <<>>),
                                     Event("wait", delay(attempt[i]), <<>>)>>]
    /\ UNCHANGED <<cancelled, mainpc, attempt, cam_fragments, tmp, results, lock, done,
                   errors, writes>>
    /\ UNCHANGED <<analyzerVars, detailVars, cacheVars>>

\* "_cancelled.wait(delay)" returns: True ends the fetch with [], a timeout
\* goes to the next attempt
BackoffEnds(i) ==
    /\ wpc[i] = "backoff"
    /\ IF cancelled
          THEN /\ cam_fragments' = [cam_fragments EXCEPT ![i] = <<>>]
               /\ wpc' = [wpc EXCEPT ![i] = "analyze"]
               /\ log' = [log EXCEPT ![i] =
                              Append(@, Event("cancel", attempt[i], <<>>))]
               /\ attempt' = attempt
          ELSE /\ attempt' = [attempt EXCEPT ![i] = @ + 1]
               /\ wpc' = [wpc EXCEPT ![i] = "loop"]
               /\ UNCHANGED <<cam_fragments, log>>
    /\ UNCHANGED <<cancelled, mainpc, tmp, results, lock, done, errors, writes>>
    /\ UNCHANGED <<analyzerVars, detailVars, cacheVars>>

\* "except Exception: fragments = []" and the entry of "with lock:"
ExceptAcquire(i) ==
    /\ wpc[i] = "except"
    /\ LockFree
    /\ cam_fragments' = [cam_fragments EXCEPT ![i] = fallback_fragments]
    /\ lock' = i
    /\ wpc' = [wpc EXCEPT ![i] = "errors_read"]
    /\ UNCHANGED <<cancelled, mainpc, attempt, tmp, results, done, errors, log,
                   writes>>
    /\ UNCHANGED <<analyzerVars, detailVars, cacheVars>>

\* "errors[0] += 1": the load
ErrorsRead(i) ==
    /\ wpc[i] = "errors_read"
    /\ tmp' = [tmp EXCEPT ![i] = errors]
    /\ wpc' = [wpc EXCEPT ![i] = "errors_write"]
    /\ UNCHANGED <<cancelled, mainpc, attempt, cam_fragments, results, lock, done,
                   errors, log, writes>>
    /\ UNCHANGED <<analyzerVars, detailVars, cacheVars>>

\* "errors[0] += 1": the store, then the exit of "with lock:"
ErrorsWrite(i) ==
    /\ wpc[i] = "errors_write"
    /\ errors' = tmp[i] + 1
    /\ lock' = 0
    /\ wpc' = [wpc EXCEPT ![i] = "analyze"]
    /\ UNCHANGED <<cancelled, mainpc, attempt, cam_fragments, tmp, results, done, log,
                   writes>>
    /\ UNCHANGED <<analyzerVars, detailVars, cacheVars>>

\* "archive = analyze_archive(fragments, now); results[idx] = (cam, archive)"
AnalyzeAndStore(i) ==
    /\ wpc[i] = "analyze"
    /\ results' = [results EXCEPT ![ResultSlot(i)] =
                      [cam |-> cameras[i],
                       archive |-> analyze_archive(cam_fragments[i], now, tz)]]
    /\ writes' = [writes EXCEPT ![ResultSlot(i)] = @ + 1]
    /\ log' = [log EXCEPT ![i] = Append(@, Event("analyze", 0, cam_fragments[i]))]
    /\ wpc' = [wpc EXCEPT ![i] = "done_acquire"]
    /\ UNCHANGED <<cancelled, mainpc, attempt, cam_fragments, tmp, lock, done, errors>>
    /\ UNCHANGED <<analyzerVars, detailVars, cacheVars>>

\* the entry of the second "with lock:"
DoneAcquire(i) ==
    /\ wpc[i] = "done_acquire"
    /\ LockFree
    /\ lock' = i
    /\ wpc' = [wpc EXCEPT ![i] = "done_read"]
    /\ UNCHANGED <<cancelled, mainpc, attempt, cam_fragments, tmp, results, done, errors,
                   log, writes>>
    /\ UNCHANGED <<analyzerVars, detailVars, cacheVars>>

\* "done[0] += 1": the load
DoneRead(i) ==
    /\ wpc[i] = "done_read"
    /\ tmp' = [tmp EXCEPT ![i] = done]
    /\ wpc' = [wpc EXCEPT ![i] = "done_write"]
    /\ UNCHANGED <<cancelled, mainpc, attempt, cam_fragments, results, lock, done,
                   errors, log, writes>>
    /\ UNCHANGED <<analyzerVars, detailVars, cacheVars>>

\* "done[0] += 1": the store, the progress line, the exit of "with lock:"
\* and the return of process_camera
DoneWrite(i) ==
    /\ wpc[i] = "done_write"
    /\ done' = tmp[i] + 1
    /\ lock' = 0
    /\ wpc' = [wpc EXCEPT ![i] = "returned"]
    /\ UNCHANGED <<cancelled, mainpc, attempt, cam_fragments, tmp, results, errors, log,
                   writes>>
    /\ UNCHANGED <<analyzerVars, detailVars, cacheVars>>

\* KeyboardInterrupt in the as_completed loop: "_cancelled.set()"
Interrupt ==
    /\ mainpc = "wait"
    /\ cancelled' = TRUE
    /\ mainpc' = "interrupted"
    /\ UNCHANGED <<wpc, attempt, cam_fragments, tmp, results, lock, done, errors, log,
                   writes>>
    /\ UNCHANGED <<analyzerVars, detailVars, cacheVars>>

\* "pool.shutdown(wait=True, cancel_futures=True)": the tasks still queued
\* are cancelled
ShutdownCancel ==
    /\ mainpc = "interrupted"
    /\ wpc' = [i \in CameraIdx |->
                  IF wpc[i] = "queued" THEN "cancelled" ELSE wpc[i]]
    /\ mainpc' = "draining"
    /\ UNCHANGED <<cancelled, attempt, cam_fragments, tmp, results, lock, done, errors,
                   log, writes>>
    /\ UNCHANGED <<analyzerVars, detailVars, cacheVars>>

\* the shutdown has waited for the running tasks: "sys.exit(1)"
Exit ==
    /\ mainpc = "draining"
    /\ PoolDrained
    /\ mainpc' = "exited"
    /\ UNCHANGED <<cancelled, wpc, attempt, cam_fragments, tmp, results, lock, done,
                   errors, log, writes>>
    /\ UNCHANGED <<analyzerVars, detailVars, cacheVars>>

\* every future has completed, the with block is left: "return results"
Return ==
    /\ mainpc = "wait"
    /\ PoolDrained
    /\ mainpc' = "returned"
    /\ UNCHANGED <<cancelled, wpc, attempt, cam_fragments, tmp, results, lock, done,
                   errors, log, writes>>
    /\ UNCHANGED <<analyzerVars, detailVars, cacheVars>>

\* routes/cameras.py camera_detail.  The web application and the report
\* script share no state: requests are served before the script is run.
DetailRequest ==
    /\ dpc = "idle"
    /\ mainpc = "idle"
    /\ dpc' = "fetch"
    /\ UNCHANGED <<dfragments, dfailed, darchive>>
    /\ UNCHANGED <<analyzerVars, batchVars, cacheVars>>

\* "fragments = client.get_camera_fragments(uid, since_90d, now_int)"
DetailFetchReturns ==
    /\ dpc = "fetch"
    /\ \E fl \in UpstreamLists : dfragments' = fl
    /\ dpc' = "analyze"
    /\ UNCHANGED <<dfailed, darchive>>
    /\ UNCHANGED <<analyzerVars, batchVars, cacheVars>>

\* "except Exception: fragments = []"
DetailFetchRaises ==
    /\ dpc = "fetch"
    /\ dfragments' = fallback_fragments
    /\ dfailed' = TRUE
    /\ dpc' = "analyze"
    /\ UNCHANGED darchive
    /\ UNCHANGED <<analyzerVars, batchVars, cacheVars>>

\* "archive = analyze_archive(fragments, now_ts)"
DetailAnalyze ==
    /\ dpc = "analyze"
    /\ darchive' = analyze_archive(dfragments, now, tz)
    /\ dpc' = "render"
    /\ UNCHANGED <<dfragments, dfailed>>
    /\ UNCHANGED <<analyzerVars, batchVars, cacheVars>>

\* the template is rendered and the request's locals are gone
DetailRespond ==
    /\ dpc = "render"
    /\ dpc' = "idle"
    /\ dfragments' = <<>>
    /\ dfailed' = FALSE
    /\ darchive' = [pending |-> TRUE]
    /\ UNCHANGED <<analyzerVars, batchVars, cacheVars>>

BatchNows == {200000}

BatchTZOffsets == {10800}

\* the report script and the web application before they do anything
BatchInit ==
    /\ fragments = <<>>
    /\ now \in BatchNows
    /\ tz \in BatchTZOffsets
    /\ pc = "idle"
    /\ report = [pending |-> TRUE]
    /\ raised = "none"
    /\ flagged = FALSE
    /\ reasons = <<>>
    /\ BatchIdle
    /\ DetailIdle
    /\ CacheIdle

BatchNext ==
    \/ StartBatch
    \/ \E i \in CameraIdx :
          \/ Submit(i)
          \/ TaskStart(i)
          \/ LoopHead(i)
          \/ FetchReturns(i)
          \/ FetchRaises(i)
          \/ BackoffEnds(i)
          \/ ExceptAcquire(i)
          \/ ErrorsRead(i)
          \/ ErrorsWrite(i)
          \/ AnalyzeAndStore(i)
          \/ DoneAcquire(i)
          \/ DoneRead(i)
          \/ DoneWrite(i)
    \/ Interrupt
    \/ ShutdownCancel
    \/ Exit
    \/ Return
    \/ DetailRequest
    \/ DetailFetchReturns
    \/ DetailFetchRaises
    \/ DetailAnalyze
    \/ DetailRespond

SpecBatch == BatchInit /\ [][BatchNext]_vars

-----------------------------------------------------------------------------
(* One call of analyze_archive on an input drawn from the bounded space *)

NoReport == [pending |-> TRUE]

Init ==
    /\ fragments \in FragmentLists
    /\ now \in Nows
    /\ tz \in TZOffsets
    /\ pc = "call"
    /\ report = NoReport
    /\ raised = "none"
    /\ flagged = FALSE
    /\ reasons = <<>>
    /\ BatchIdle
    /\ DetailIdle
    /\ CacheIdle

\* "if not fragments: return {...}"
AnalyzeEmpty ==
    /\ pc = "call"
    /\ fragments = <<>>
    /\ report' = EmptyReport
    /\ raised' = "none"
    /\ pc' = "done"
    /\ UNCHANGED <<fragments, now, tz, flagged, reasons>>
    /\ UNCHANGED <<batchVars, detailVars, cacheVars>>

\* the rest of the function
AnalyzeFragments ==
    /\ pc = "call"
    /\ fragments # <<>>
    /\ IF DividesByZero(sorted_frags(fragments), now, tz)
          THEN /\ raised' = "ZeroDivisionError"
               /\ report' = NoReport
          ELSE /\ raised' = "none"
               /\ report' = FullReport(fragments, now, tz)
    /\ pc' = "done"
    /\ UNCHANGED <<fragments, now, tz, flagged, reasons>>
    /\ UNCHANGED <<batchVars, detailVars, cacheVars>>

\* write_problems_sheet: one pass of its loop body over (cam, archive)
ProblemsRow ==
    /\ pc = "done"
    /\ raised = "none"
    /\ flagged' = is_problem_camera(report)
    /\ reasons' = IF is_problem_camera(report) THEN ProblemReasons(report)
                  ELSE <<>>
    /\ pc' = "row"
    /\ UNCHANGED <<fragments, now, tz, report, raised>>
    /\ UNCHANGED <<batchVars, detailVars, cacheVars>>

Next == AnalyzeEmpty \/ AnalyzeFragments \/ ProblemsRow

Spec == Init /\ [][Next]_vars

-----------------------------------------------------------------------------
(* Vocabulary of the properties *)

\* the call has returned a report
Returned == pc = "done" /\ raised = "none"

Indices(s) == 1..Len(s)

Reorderings(s) ==
    {[i \in Indices(s) |-> s[p[i]]] :
        p \in {q \in [Indices(s) -> Indices(s)] :
                  \A i, j \in Indices(s) : q[i] = q[j] => i = j}}

\* fragments that start together also end together
TiesAgree(s) ==
    \A i, j \in Indices(s) : s[i].since = s[j].since => s[i].till = s[j].till

RECURSIVE SumOver(_, _)
SumOver(S, val) ==
    IF S = {} THEN 0
    ELSE LET x == CHOOSE y \in S : TRUE IN val[x] + SumOver(S \ {x}, val)

MaxOver(S, val) ==
    IF S = {} THEN 0 ELSE CHOOSE m \in {val[x] : x \in S} : \A x \in S : val[x] <= m

\* the sorted list, the separation before each of its elements and the
\* pairs whose separation counts as a gap
Sorted == sorted_frags(fragments)

Separation == [i \in 2..Len(Sorted) |-> Sorted[i].since - Sorted[i - 1].till]

GapPairs == {i \in 2..Len(Sorted) : Separation[i] > 60}

MinSince == CHOOSE m \in {fragments[i].since : i \in Indices(fragments)} :
                \A i \in Indices(fragments) : m <= fragments[i].since

MaxTill == CHOOSE m \in {fragments[i].till : i \in Indices(fragments)} :
               \A i \in Indices(fragments) : fragments[i].till <= m

\* the input fragment that a stable ascending sort by since puts last
LastStarting ==
    CHOOSE i \in Indices(fragments) :
        \A j \in Indices(fragments) :
            \/ fragments[j].since < fragments[i].since
            \/ fragments[j].since = fragments[i].since /\ j <= i

InputDurations == [i \in Indices(fragments) |-> fragments[i].till - fragments[i].since]

Overlap(a, b) == a.since < b.till /\ b.since < a.till

NoOverlap ==
    \A i, j \in Indices(fragments) :
        i # j => ~Overlap(fragments[i], fragments[j])

LocalMidnight(date) == date * 86400 - tz

-----------------------------------------------------------------------------
(* C1 *)

\* C1 as stated: the report is the same for every permutation of the
\* fragment list, also when several fragments share the same since.
C1_AnyPermutation ==
    Returned =>
        \A P \in Reorderings(fragments) : analyze_archive(P, now, tz) = report

\* C1 amended: the report is the same for every permutation of a fragment
\* list in which fragments with equal since also have equal till (in
\* particular when all since values are distinct); it is the report of the
\* list sorted ascending by since.
C1_PermutationInvariant ==
    Returned /\ TiesAgree(fragments) =>
        \A P \in Reorderings(fragments) : analyze_archive(P, now, tz) = report

C1_Witness ==
    /\ Returned
    /\ TiesAgree(fragments)
    /\ Len(fragments) >= 2
    /\ \E i \in 1..(Len(fragments) - 1) :
          fragments[i].since > fragments[i + 1].since
    /\ report.total_fragments = Len(fragments)

-----------------------------------------------------------------------------
(* C2 *)

\* C2: a gap is recorded for an adjacent pair of the sorted list iff
\* cur.since - prev.till > 60; gaps_count is the number of recorded gaps,
\* max_gap their maximum (0 if none), total_gap_time their sum; every
\* reported gap value is > 60 and max_gap <= total_gap_time.
C2_GapRule ==
    Returned =>
        /\ report.gaps_count = Cardinality(GapPairs)
        /\ report.max_gap = MaxOver(GapPairs, Separation)
        /\ report.total_gap_time = SumOver(GapPairs, Separation)
        /\ report.max_gap = 0 \/ report.max_gap > 60
        /\ report.gaps_count = 0 <=> report.max_gap = 0
        /\ report.max_gap <= report.total_gap_time

C2_Witness ==
    /\ Returned
    /\ report.gaps_count = 1
    /\ \E i \in 2..Len(Sorted) : Separation[i] = 60
    /\ \E i \in 2..Len(Sorted) : Separation[i] = 61

-----------------------------------------------------------------------------
(* C3 *)

\* C3: for an empty fragment list and every now the call returns the report
\* whose nine numeric fields are 0 and whose daily sequence is empty.
C3_EmptyInput ==
    pc = "done" /\ fragments = <<>> =>
        /\ raised = "none"
        /\ report.total_fragments = 0
        /\ report.depth_days = 0
        /\ report.total_recorded = 0
        /\ report.total_span = 0
        /\ report.coverage_pct = 0
        /\ report.avg_fragment.num = 0
        /\ report.gaps_count = 0
        /\ report.max_gap = 0
        /\ report.total_gap_time = 0
        /\ report.daily = <<>>

C3_Witness == pc = "done" /\ fragments = <<>> /\ now = 200000 /\ report.daily = <<>>

-----------------------------------------------------------------------------
(* C4 *)

-----------------------------------------------------------------------------
(* C5 *)

\* C5: for every fragment list, zero-length and till < since fragments
\* included, the call returns without raising, coverage_pct is 0 whenever
\* total_span <= 0 and is total_recorded / total_span * 100 when
\* total_span > 0.
C5_CoverageGuard ==
    pc = "done" =>
        /\ raised = "none"
        /\ report.total_span <= 0 => report.coverage_pct = 0
        /\ report.total_span > 0 =>
              report.coverage_pct =
                  RoundRatio(report.total_recorded * 1000, report.total_span)

-----------------------------------------------------------------------------
(* C6 *)

\* C6 as stated: for every non-empty list of fragments with till >= since
\* of which no two overlap, total_recorded <= total_span and coverage_pct
\* is at most 100.
C6_WellFormedDisjoint ==
    /\ Returned
    /\ fragments # <<>>
    /\ \A i \in Indices(fragments) : fragments[i].till >= fragments[i].since
    /\ NoOverlap
    => /\ report.total_recorded <= report.total_span
       /\ report.coverage_pct <= 1000

\* C6 amended: for every non-empty list of fragments of positive length
\* (till > since) of which no two overlap, total_recorded <= total_span and
\* coverage_pct is at most 100.
C6_PositiveDisjoint ==
    /\ Returned
    /\ fragments # <<>>
    /\ \A i \in Indices(fragments) : fragments[i].till > fragments[i].since
    /\ NoOverlap
    => /\ report.total_recorded <= report.total_span
       /\ report.coverage_pct <= 1000

C6_Witness ==
    /\ Returned
    /\ Len(fragments) >= 2
    /\ \A i \in Indices(fragments) : fragments[i].till > fragments[i].since
    /\ NoOverlap
    /\ fragments[1].since > fragments[2].since
    /\ report.total_recorded < report.total_span
    /\ report.coverage_pct > 0

-----------------------------------------------------------------------------
(* C7 *)

\* C7: every day bucket's coverage_pct is recorded / day_span * 100 with
\* day_span = min(day_start + 86400, now) - day_start when day_span > 0,
\* and 0 when now <= day_start; the denominator exceeds neither 86400 nor
\* the time elapsed since the day's local midnight.
C7_DayDenominator ==
    Returned =>
        \A k \in DOMAIN report.daily :
            LET b     == report.daily[k]
                start == LocalMidnight(b.date)
                span  == Min(start + 86400, now) - start
            IN  /\ span <= 86400
                /\ span <= now - start
                /\ now > start =>
                      b.coverage_pct = RoundRatio(b.recorded * 1000, span)
                /\ now <= start => b.coverage_pct = 0

\* a partial day with recordings next to a day that has not begun at now
C7_Witness ==
    /\ Returned
    /\ \E k \in DOMAIN report.daily :
          /\ now < LocalMidnight(report.daily[k].date)
          /\ report.daily[k].recorded > 0
    /\ \E k \in DOMAIN report.daily :
          /\ now > LocalMidnight(report.daily[k].date)
          /\ now < LocalMidnight(report.daily[k].date) + 86400
          /\ report.daily[k].recorded > 0
          /\ report.daily[k].coverage_pct > 0

-----------------------------------------------------------------------------
(* C8 *)

DateOf(t) == (t + tz) \div 86400

StartingOn(date) == {i \in Indices(fragments) : DateOf(fragments[i].since) = date}

GapPairsOn(date) == {i \in GapPairs : DateOf(Sorted[i].since) = date}

\* C8: each fragment is counted in exactly one bucket, the local date of
\* its since, with its whole (till - since); each recorded gap is counted
\* in exactly one bucket, the local date of the since of the second
\* fragment of the pair; a bucket's gaps_count and max_gap are the count
\* and the maximum (0 if none) of the gaps attributed to it.
C8_DailyBucketing ==
    Returned =>
        /\ \A i \in Indices(fragments) :
              Cardinality({k \in DOMAIN report.daily :
                  report.daily[k].date = DateOf(fragments[i].since)}) = 1
        /\ \A k \in DOMAIN report.daily :
              LET b == report.daily[k]
              IN  /\ b.fragments = Cardinality(StartingOn(b.date))
                  /\ b.fragments >= 1
                  /\ b.recorded = SumOver(StartingOn(b.date), InputDurations)
                  /\ b.gaps_count = Cardinality(GapPairsOn(b.date))
                  /\ b.max_gap = MaxOver(GapPairsOn(b.date), Separation)

\* a fragment that runs past midnight, and a gap that spans midnight
C8_Witness ==
    /\ Returned
    /\ Len(report.daily) = 2
    /\ \E i \in Indices(fragments) :
          /\ fragments[i].till > LocalMidnight(DateOf(fragments[i].since) + 1)
          /\ report.daily[1].recorded >= InputDurations[i]
    /\ \E i \in GapPairs :
          /\ DateOf(Sorted[i - 1].since) # DateOf(Sorted[i].since)
          /\ report.daily[2].gaps_count >= 1
          /\ report.daily[1].gaps_count = 0

-----------------------------------------------------------------------------
(* C9 *)

ClipStart(f, date) == Max(f.since, LocalMidnight(date))

ClipEnd(f, date) == Min(f.till, LocalMidnight(date) + 86400)

Touches(f, date) == ClipEnd(f, date) > ClipStart(f, date)

\* the clipped intervals of a day's segments: on a 24 h axis a segment of a
\* day starts at its t_from and, ending after it starts, ends at its t_to
\* or, when t_to is midnight, at 86400
SegmentSpan(seg) ==
    <<seg.title.t_from,
      IF seg.title.t_to > seg.title.t_from THEN seg.title.t_to
      ELSE seg.title.t_to + 86400>>

ClippedSpan(f, date) ==
    <<ClipStart(f, date) - LocalMidnight(date),
      ClipEnd(f, date) - LocalMidnight(date)>>

TouchingOn(date) == SelectSeq(Sorted, LAMBDA f : Touches(f, date))

\* C9: the timeline of every day bucket holds, in sorted fragment order, one
\* segment for every input fragment whose [since, till) clipped to the day
\* is non-empty, fragments that started on an earlier day included, and no
\* segment for the others.
C9_TimelineCoversDay ==
    Returned =>
        \A k \in DOMAIN report.daily :
            LET b  == report.daily[k]
                tf == TouchingOn(b.date)
            IN  /\ Len(b.timeline) = Len(tf)
                /\ \A n \in DOMAIN b.timeline :
                      n \in DOMAIN tf =>
                          SegmentSpan(b.timeline[n]) = ClippedSpan(tf[n], b.date)

-----------------------------------------------------------------------------
(* C10 *)

SegmentLength(seg) == SegmentSpan(seg)[2] - SegmentSpan(seg)[1]

\* C10: every timeline segment has 0 <= left <= 100 and 0.3 <= width <= 100
\* with left = (seg_start - day_start) / 86400 * 100 and
\* width = max((seg_end - seg_start) / 86400 * 100, 0.3), rounded to two
\* places; a 1-second segment has width exactly 0.3.
C10_SegmentBounds ==
    Returned =>
        \A k \in DOMAIN report.daily :
            \A n \in DOMAIN report.daily[k].timeline :
                LET seg == report.daily[k].timeline[n]
                    len == SegmentLength(seg)
                IN  /\ 0 <= seg.left /\ seg.left <= 10000
                    /\ 30 <= seg.width /\ seg.width <= 10000
                    /\ seg.left = RoundRatio(seg.title.t_from * 10000, 86400)
                    /\ seg.width = Max(RoundRatio(len * 10000, 86400), 30)
                    /\ len = 1 => seg.width = 30

\* a 1-second segment at the floor next to a segment wider than the floor
C10_Witness ==
    /\ Returned
    /\ \E k \in DOMAIN report.daily :
          \E n, m \in DOMAIN report.daily[k].timeline :
              /\ SegmentLength(report.daily[k].timeline[n]) = 1
              /\ report.daily[k].timeline[n].width = 30
              /\ report.daily[k].timeline[n].left > 0
              /\ report.daily[k].timeline[m].width > 30

-----------------------------------------------------------------------------
(* C15 *)

DailyField(field) == [k \in DOMAIN report.daily |-> report.daily[k][field]]

\* C15: for every non-empty fragment list the daily fragments, recorded and
\* gaps_count sum to total_fragments, total_recorded and gaps_count, the
\* largest daily max_gap is max_gap, every bucket has at least one fragment
\* and the bucket dates are strictly ascending.
C15_Conservation ==
    Returned /\ fragments # <<>> =>
        /\ SumOver(DOMAIN report.daily, DailyField("fragments"))
              = report.total_fragments
        /\ SumOver(DOMAIN report.daily, DailyField("recorded"))
              = report.total_recorded
        /\ SumOver(DOMAIN report.daily, DailyField("gaps_count"))
              = report.gaps_count
        /\ MaxOver(DOMAIN report.daily, DailyField("max_gap")) = report.max_gap
        /\ \A k \in DOMAIN report.daily : report.daily[k].fragments >= 1
        /\ \A k \in DOMAIN report.daily :
              k > 1 => report.daily[k - 1].date < report.daily[k].date

\* two buckets, gaps in both, the larger one in the first
C15_Witness ==
    /\ Returned
    /\ Len(report.daily) = 2
    /\ report.daily[1].gaps_count >= 1
    /\ report.daily[2].gaps_count >= 1
    /\ report.daily[1].max_gap > report.daily[2].max_gap
    /\ report.gaps_count >= 2

-----------------------------------------------------------------------------
(* C16 *)

\* C16: a report is flagged by is_problem_camera if and only if the row
\* written for it collects at least one reason (stated for the reports of
\* fragment lists whose fragments all have till > since).
C16_FlaggedHasReason ==
    /\ pc = "row"
    /\ \A i \in Indices(fragments) : fragments[i].till > fragments[i].since
    =>
        /\ flagged <=> reasons # <<>>
        /\ is_problem_camera(report) <=> ProblemReasons(report) # <<>>

-----------------------------------------------------------------------------
(* Vocabulary of the batch properties *)

Events(i, kinds) == {k \in DOMAIN log[i] : log[i][k].ev \in kinds}

\* the calls of client.get_camera_fragments made for camera i
Calls(i) == Events(i, {"ok", "fail"})

FetchFailed(i) == Events(i, {"raise"}) # {}

\* every numeric field is 0 and daily is empty
AllZero(a) ==
    /\ a.total_fragments = 0 /\ a.depth_days = 0 /\ a.total_recorded = 0
    /\ a.total_span = 0 /\ a.coverage_pct = 0 /\ a.avg_fragment.num = 0
    /\ a.gaps_count = 0 /\ a.max_gap = 0 /\ a.total_gap_time = 0
    /\ a.daily = <<>>

Stored(i) == results[i] # [pending |-> TRUE]

-----------------------------------------------------------------------------
(* C11 *)

\* C11: for one camera get_camera_fragments is called at most 3 times, the
\* k-th call being attempt k; the first success ends the fetch with its
\* result; failed attempt 1 is followed by a wait of 2 s and failed attempt
\* 2 by a wait of 4 s before the next attempt; a failed attempt 3 re-raises
\* at once, without a wait; analyze_archive runs at most once per camera.
C11_RetryCeiling ==
    \A i \in CameraIdx :
        /\ Cardinality(Calls(i)) <= 3
        /\ Cardinality(Events(i, {"analyze"})) <= 1
        /\ \A k \in DOMAIN log[i] :
              LET e == log[i][k]
                  later == {m \in DOMAIN log[i] : m > k}
              IN  /\ e.ev \in {"ok", "fail"} =>
                        /\ e.n = Cardinality({m \in Calls(i) : m <= k})
                        /\ e.n > 1 =>
                              /\ log[i][k - 1].ev = "wait"
                              /\ log[i][k - 2] = [ev |-> "fail", n |-> e.n - 1,
                                                  val |-> <<>>]
                  /\ e.ev = "ok" =>
                        /\ \A m \in later : log[i][m].ev = "analyze"
                        /\ wpc[i] \notin {"loop", "call", "backoff", "except"}
                        /\ cam_fragments[i] = e.val
                  /\ e.ev = "fail" /\ e.n = 1 =>
                        log[i][k + 1] = [ev |-> "wait", n |-> 2, val |-> <<>>]
                  /\ e.ev = "fail" /\ e.n = 2 =>
                        log[i][k + 1] = [ev |-> "wait", n |-> 4, val |-> <<>>]
                  /\ e.ev = "fail" /\ e.n = 3 =>
                        /\ log[i][k + 1].ev = "raise"
                        /\ \A m \in later : log[i][m].ev \in {"raise", "analyze"}

\* a camera fetched at the third attempt next to one that failed three times
C11_Witness ==
    /\ mainpc = "returned"
    /\ \E i \in CameraIdx :
          /\ Cardinality(Calls(i)) = 3
          /\ Events(i, {"ok"}) # {}
          /\ cam_fragments[i] # <<>>
    /\ \E i \in CameraIdx :
          /\ Cardinality(Calls(i)) = 3
          /\ FetchFailed(i)

-----------------------------------------------------------------------------
(* C12 *)

C12_AfterTheFlag ==
    /\ \A i \in CameraIdx :
          \A k \in DOMAIN log[i] :
              log[i][k].ev = "cancel" =>
                  /\ cancelled
                  /\ \A m \in DOMAIN log[i] : m > k => log[i][m].ev = "analyze"
                  /\ wpc[i] \notin {"loop", "call", "backoff", "except"}
                  /\ cam_fragments[i] = <<>>
                  /\ log[i][k].n = 0 => k = Len(log[i]) /\ wpc[i] = "returned"
    /\ mainpc = "exited" =>
          /\ cancelled
          /\ \A i \in CameraIdx : wpc[i] \in {"returned", "cancelled"}

\* what a task does at a point where it reads the flag, when the flag is set
C12_ObservesTheFlag ==
    \A i \in CameraIdx :
        cancelled /\ wpc'[i] # wpc[i] =>
            /\ wpc[i] = "queued" =>
                  /\ wpc'[i] \in {"returned", "cancelled"}
                  /\ results' = results
            /\ wpc[i] \in {"loop", "backoff"} =>
                  /\ wpc'[i] = "analyze"
                  /\ cam_fragments'[i] = <<>>
                  /\ Calls(i)' = Calls(i)

\* C12: a task that finds the flag set at the start of process_camera,
\* before an attempt or in a backoff wait makes no further fetch attempt and
\* returns, the fetch giving [] and not raising; the flag, once set, stays
\* set; the process exits on interrupt only after every started task has
\* finished.
C12_Cancellation ==
    /\ []C12_AfterTheFlag
    /\ [][C12_ObservesTheFlag /\ (cancelled => cancelled')]_vars

\* exit after one task saw the flag in its backoff and one at its start
C12_Witness ==
    /\ mainpc = "exited"
    /\ \E i \in CameraIdx :
          \E k \in DOMAIN log[i] :
              /\ k > 1
              /\ log[i][k].ev = "cancel"
              /\ log[i][k - 1].ev = "wait"
              /\ Stored(i)
    /\ \E i \in CameraIdx :
          /\ log[i] = <<[ev |-> "cancel", n |-> 0, val |-> <<>>]>>
          /\ ~Stored(i)

-----------------------------------------------------------------------------
(* C13 *)

\* C13: a camera whose fetch failed after the last retry gets the all-zero
\* report with empty daily, the report of a camera without fragments, and
\* its task goes on to the end; the result of every other camera is the
\* report of what was fetched for it; a detail request whose fetch failed
\* renders the all-zero report too.
C13_FailureIsNoData ==
    /\ \A i \in CameraIdx :
          /\ FetchFailed(i) =>
                /\ wpc[i] \in {"except", "errors_read", "errors_write", "analyze",
                               "done_acquire", "done_read", "done_write",
                               "returned"}
                /\ Stored(i) =>
                      /\ AllZero(results[i].archive)
                      /\ results[i].archive = analyze_archive(<<>>, now, tz)
                /\ wpc[i] = "returned" => Stored(i)
          /\ \A k \in Events(i, {"ok"}) :
                Stored(i) =>
                    results[i].archive = analyze_archive(log[i][k].val, now, tz)
    /\ dpc = "render" /\ dfailed => AllZero(darchive)
    /\ dpc = "render" /\ ~dfailed =>
          darchive = analyze_archive(dfragments, now, tz)

\* a failed camera next to one with two fragments
C13_Witness ==
    /\ mainpc = "returned"
    /\ \E i, j \in CameraIdx :
          /\ FetchFailed(i)
          /\ AllZero(results[i].archive)
          /\ ~FetchFailed(j)
          /\ results[j].archive.total_fragments = 2

-----------------------------------------------------------------------------
(* C14 *)

\* C14: when a run without cancellation returns, every slot results[i] has
\* been written exactly once and holds cameras[i] with the report of the
\* fragments fetched for camera i; no slot written holds another camera.
C14_OrderedAggregation ==
    /\ \A i \in CameraIdx :
          /\ writes[i] <= 1
          /\ Stored(i) => results[i].cam = cameras[i]
    /\ mainpc = "returned" =>
          \A i \in CameraIdx :
              /\ Stored(i)
              /\ writes[i] = 1
              /\ results[i].cam = cameras[i]
              /\ results[i].archive = analyze_archive(cam_fragments[i], now, tz)
              /\ \A k \in Events(i, {"ok"}) : cam_fragments[i] = log[i][k].val
              /\ FetchFailed(i) => cam_fragments[i] = <<>>

\* the last camera completed first and the reports differ
C14_Witness ==
    /\ mainpc = "returned"
    /\ tmp[NumCameras] = 0
    /\ tmp[1] > 0
    /\ results[1].archive # results[NumCameras].archive

-----------------------------------------------------------------------------
(* C17 *)

Counted(i) == wpc[i] = "returned" /\ Events(i, {"analyze"}) # {}

ErrorCounted(i) ==
    FetchFailed(i) /\ wpc[i] \notin {"except", "errors_read", "errors_write"}

\* C17: done and errors are read and written by a task only while it holds
\* the lock and no increment is lost: at every moment done is the number of
\* tasks that have counted themselves and errors the number of counted
\* failures, both between 0 and the number of cameras; when a run without
\* cancellation returns, done is the number of cameras and errors the number
\* of cameras whose fetch failed after all retries.
C17_ProgressCounters ==
    /\ \A i \in CameraIdx :
          wpc[i] \in {"errors_read", "errors_write", "done_read", "done_write"}
              => lock = i
    /\ 0 <= errors /\ errors <= NumCameras
    /\ 0 <= done /\ done <= NumCameras
    /\ done = Cardinality({i \in CameraIdx : Counted(i)})
    /\ errors = Cardinality({i \in CameraIdx : ErrorCounted(i)})
    /\ mainpc = "returned" =>
          /\ done = NumCameras
          /\ errors = Cardinality({i \in CameraIdx : FetchFailed(i)})

\* every camera failed, and every increment was kept
C17_Witness ==
    /\ mainpc = "returned"
    /\ errors = NumCameras
    /\ done = NumCameras

-----------------------------------------------------------------------------
(* C18 *)

\* C18: every accessor call takes the module lock once and gives it back
\* when it returns or raises: a thread never waits for the lock it holds
\* itself, no thread keeps the lock after its call, and the lock is held
\* only by a thread that is inside a call it can finish.
C18_LockOncePerCall ==
    \A t \in Threads :
        /\ ~(cpc[t] = "acquire" /\ cache_lock = t)
        /\ cpc[t] = "idle" => cache_lock # t
        /\ depth[t] <= 1

====
